---- MODULE Spec2Model ----
(***************************************************************************)
(* Model of the exponentiation circuit of src/src/lib.rs (ExpChip,         *)
(* ExpCircuit) as it is run by tests::test_exp_circuit: MockProver::run    *)
(* synthesizes the circuit with the public inputs known, then the          *)
(* prover's verification checks the assigned trace.                        *)
(*                                                                         *)
(* One action is one call the circuit makes into the halo2 backend, in     *)
(* program order.  The backend's behaviour (usable-row check of            *)
(* enable_selector / assign_advice / query_instance, copy constraints,     *)
(* gate evaluation with unassigned cells read as zero, the                 *)
(* cell-not-assigned check) is modelled by what the calls do.              *)
(*                                                                         *)
(* SimpleFloorPlanner first runs the region closure against a RegionShape  *)
(* in which assign_advice_from_instance yields no value, so the            *)
(* `while let Some(value)` loop does not run and nothing is written; that  *)
(* pass only measures the region (which starts at row 0) and is not a      *)
(* state change of the trace.                                              *)
(***************************************************************************)
EXTENDS Integers, Naturals, FiniteSets, Sequences, TLC

\* Order of the field the circuit is instantiated over (Fp in the test).
P == 7
\* Number of usable rows of the trace (the trace height of the claims).
N == 4

Field == 0..(P - 1)
\* Rows of the table: rows N and N+1 are the rows the backend reserves.
Rows == 0..(N + 1)
NumRows == N + 2
\* advice[0] = result, advice[1] = exponent, advice[2] = base
Cols == 0..2

VARIABLES instance, advice, cells, selector, copies,
          result_cell, exp_cell, base_cell, i,
          next_result, next_exp, next_base_cell,
          returned, pc, outcome,
          exposed, gate_in, gate_out

vars == <<instance, advice, cells, selector, copies,
          result_cell, exp_cell, base_cell, i,
          next_result, next_exp, next_base_cell,
          returned, pc, outcome,
          exposed, gate_in, gate_out>>

\* ------------------------------------------------------------------------
\* Field arithmetic
One == 1 % P
Two == 2 % P
Zero == 0 % P
FMul(a, b) == (a * b) % P
FSub(a, b) == ((a - b) + P) % P
FAdd(a, b) == (a + b) % P

\* base^e by repeated multiplication, e >= 1
RECURSIVE Pow(_, _)
Pow(b, e) == IF e <= 1 THEN b ELSE FMul(Pow(b, e - 1), b)

\* ------------------------------------------------------------------------
\* Backend: rows a circuit may write to
UsableOffByOne(row) == row <= N
UsableShort(row) == row < N - 1
Usable(row) == row < N

NoCell == [column |-> 0, row |-> 0 - 1, value |-> 0]
AssignedCell(c, r, v) == [column |-> c, row |-> r, value |-> v]

\* padded instance column
InstanceValue(inst, r) == IF r \in DOMAIN inst THEN inst[r] ELSE 0

CellSet(cs) == {cs[k] : k \in DOMAIN cs}

\* ------------------------------------------------------------------------
\* Gate "exp": the three constraints at a row, from the selector and the
\* values at the row (prev) and at the next row (curr)
GateExpNoBase(s, prev_running_result, current_result, prev_exp, curr_exp, prev_base, curr_base) ==
    << FMul(s, FSub(FMul(prev_running_result, prev_base), current_result)),
       FMul(s, FSub(FSub(prev_exp, curr_exp), One)),
       Zero >>
GateExpUngated(s, prev_running_result, current_result, prev_exp, curr_exp, prev_base, curr_base) ==
    << FMul(s, FSub(FMul(prev_running_result, prev_base), current_result)),
       FMul(s, FSub(FSub(prev_exp, curr_exp), One)),
       FSub(prev_base, curr_base) >>
GateExp(s, prev_running_result, current_result, prev_exp, curr_exp, prev_base, curr_base) ==
    << FMul(s, FSub(FMul(prev_running_result, prev_base), current_result)),
       FMul(s, FSub(FSub(prev_exp, curr_exp), One)),
       FMul(s, FSub(prev_base, curr_base)) >>

NextRow(r) == (r + 1) % NumRows
SelectorValue(sel, r) == IF r \in sel THEN 1 ELSE 0

GateAt(adv, sel, r) ==
    GateExp(SelectorValue(sel, r),
            adv[0][r], adv[0][NextRow(r)],
            adv[1][r], adv[1][NextRow(r)],
            adv[2][r], adv[2][NextRow(r)])

\* rows at which some constraint of the gate is not zero
GateFailures(adv, sel) ==
    {r \in Rows : GateAt(adv, sel, r) # <<Zero, Zero, Zero>>}

\* cells queried by an enabled gate that the region never assigned
CellNotAssigned(cs, sel) ==
    {q \in sel \X Cols \X {0, 1} :
        <<q[2], (q[1] + q[3]) % NumRows>> \notin CellSet(cs)}

\* copy constraints (advice cell = instance cell) that do not hold
PermutationFailures(adv, cps, inst) ==
    {cp \in cps : adv[cp[1]][cp[2]] # InstanceValue(inst, cp[3])}

Satisfied(adv, cs, sel, cps, inst) ==
    /\ GateFailures(adv, sel) = {}
    /\ CellNotAssigned(cs, sel) = {}
    /\ PermutationFailures(adv, cps, inst) = {}

\* ------------------------------------------------------------------------
Init ==
    /\ instance \in [0..2 -> Field]
    /\ advice = [c \in Cols |-> [r \in Rows |-> 0]]
    /\ cells = << >>
    /\ selector = {}
    /\ copies = {}
    /\ result_cell = NoCell
    /\ exp_cell = NoCell
    /\ base_cell = NoCell
    /\ i = 0
    /\ next_result = 0
    /\ next_exp = 0
    /\ next_base_cell = 0
    /\ returned = NoCell
    /\ pc = "enable_first"
    /\ outcome = "none"
    /\ exposed = << >>
    /\ gate_in = <<0, 0, 0, 0, 0, 0, 0>>
    /\ gate_out = <<Zero, Zero, Zero>>

\* an Err propagated by `?` through assign and synthesize to MockProver::run
Fail ==
    /\ pc' = "done"
    /\ outcome' = "error"

\* region.assign_advice(column, row, value): the write into the table
AssignAdvice(c, r, v) ==
    /\ advice' = [advice EXCEPT ![c][r] = v]
    /\ cells' = Append(cells, <<c, r>>)

\* region.assign_advice_from_instance(instance, row, advice, offset):
\* query the instance value, assign it and copy-constrain the two cells
CanAssignFromInstance(instRow, offset) == Usable(instRow) /\ Usable(offset)
AssignAdviceFromInstance(instRow, c, offset) ==
    /\ AssignAdvice(c, offset, InstanceValue(instance, instRow))
    /\ copies' = copies \cup {<<c, offset, instRow>>}

\* instance rows the first row is seeded from, and the row the result is
\* bound to
ResultInstanceRow == 0
ExpInstanceRow == 1
BaseFromExponentRow == ExpInstanceRow
BaseInstanceRow == 0
PublicRowBase == ResultInstanceRow
PublicRow == 2

\* the loop's tests on the value of exp_cell
IsTerminal(value) == value = One
EnablesSelectorAlways(value) == TRUE
EnablesSelectorNever(value) == FALSE
EnablesSelector(value) == value # Two

\* i += 1
NextIndexStuck(j) == j
NextIndex(j) == j + 1

\* the next row's values, computed from the current cells
NextResultSquares(result, base) == FMul(result, result)
NextResultOf(result, base) == FMul(result, base)
NextExpAdds(exp) == FAdd(exp, One)
NextExpOf(exp) == FSub(exp, One)
NextBaseDrifts(base) == FAdd(base, One)
NextBaseOf(base) == FAdd(base, Zero)

\* ------------------------------------------------------------------------
\* ExpChip::assign

\* self.config.selector.enable(&mut region, 0)?
EnableFirst ==
    /\ pc = "enable_first"
    /\ IF Usable(0)
         THEN /\ selector' = selector \cup {0}
              /\ pc' = "result_start"
              /\ UNCHANGED outcome
         ELSE /\ Fail
              /\ UNCHANGED selector
    /\ UNCHANGED <<gate_in, gate_out, exposed, instance, advice, cells, copies, result_cell, exp_cell,
                   base_cell, i, next_result, next_exp, next_base_cell,
                   returned>>

\* let mut result_cell = region.assign_advice_from_instance(.., 0, advice[0], 0)?
ResultStart ==
    /\ pc = "result_start"
    /\ IF CanAssignFromInstance(ResultInstanceRow, 0)
         THEN /\ AssignAdviceFromInstance(ResultInstanceRow, 0, 0)
              /\ result_cell' = AssignedCell(0, 0, InstanceValue(instance, ResultInstanceRow))
              /\ pc' = "exp_start"
              /\ UNCHANGED outcome
         ELSE /\ Fail
              /\ UNCHANGED <<advice, cells, copies, result_cell>>
    /\ UNCHANGED <<gate_in, gate_out, exposed, instance, selector, exp_cell, base_cell, i, next_result,
                   next_exp, next_base_cell, returned>>

\* let mut exp_cell = region.assign_advice_from_instance(.., 1, advice[1], 0)?
ExpStart ==
    /\ pc = "exp_start"
    /\ IF CanAssignFromInstance(ExpInstanceRow, 0)
         THEN /\ AssignAdviceFromInstance(ExpInstanceRow, 1, 0)
              /\ exp_cell' = AssignedCell(1, 0, InstanceValue(instance, ExpInstanceRow))
              /\ pc' = "base_start"
              /\ UNCHANGED outcome
         ELSE /\ Fail
              /\ UNCHANGED <<advice, cells, copies, exp_cell>>
    /\ UNCHANGED <<gate_in, gate_out, exposed, instance, selector, result_cell, base_cell, i, next_result,
                   next_exp, next_base_cell, returned>>

\* let mut base_cell = region.assign_advice_from_instance(.., 0, advice[2], 0)?
\* let mut i = 1
BaseStart ==
    /\ pc = "base_start"
    /\ IF CanAssignFromInstance(BaseInstanceRow, 0)
         THEN /\ AssignAdviceFromInstance(BaseInstanceRow, 2, 0)
              /\ base_cell' = AssignedCell(2, 0, InstanceValue(instance, BaseInstanceRow))
              /\ i' = 1
              /\ pc' = "loop"
              /\ UNCHANGED outcome
         ELSE /\ Fail
              /\ UNCHANGED <<advice, cells, copies, base_cell, i>>
    /\ UNCHANGED <<gate_in, gate_out, exposed, instance, selector, result_cell, exp_cell, next_result,
                   next_exp, next_base_cell, returned>>

\* while let Some(value) = exp_cell.value():
\*   break on one; enable the selector at row i unless value is two;
\*   compute next_result, next_exp, next_base_cell
LoopHead ==
    /\ pc = "loop"
    /\ LET value == exp_cell.value IN
         IF IsTerminal(value)
           THEN /\ pc' = "return"
                /\ UNCHANGED <<selector, next_result, next_exp,
                               next_base_cell, outcome>>
           ELSE IF EnablesSelector(value) /\ ~Usable(i)
             THEN /\ Fail
                  /\ UNCHANGED <<selector, next_result, next_exp,
                                 next_base_cell>>
             ELSE /\ selector' = IF EnablesSelector(value)
                                   THEN selector \cup {i} ELSE selector
                  /\ next_result' = NextResultOf(result_cell.value, base_cell.value)
                  /\ next_exp' = NextExpOf(exp_cell.value)
                  /\ next_base_cell' = NextBaseOf(base_cell.value)
                  /\ pc' = "next_result"
                  /\ UNCHANGED outcome
    /\ UNCHANGED <<gate_in, gate_out, exposed, instance, advice, cells, copies, result_cell, exp_cell,
                   base_cell, i, returned>>

\* result_cell = region.assign_advice(.., advice[0], i, || Ok(next_result))?
NextResult ==
    /\ pc = "next_result"
    /\ IF Usable(i)
         THEN /\ AssignAdvice(0, i, next_result)
              /\ result_cell' = AssignedCell(0, i, next_result)
              /\ pc' = "next_exp"
              /\ UNCHANGED outcome
         ELSE /\ Fail
              /\ UNCHANGED <<advice, cells, result_cell>>
    /\ UNCHANGED <<gate_in, gate_out, exposed, instance, selector, copies, exp_cell, base_cell, i,
                   next_result, next_exp, next_base_cell, returned>>

\* exp_cell = region.assign_advice(.., advice[1], i, || Ok(next_exp))?
NextExp ==
    /\ pc = "next_exp"
    /\ IF Usable(i)
         THEN /\ AssignAdvice(1, i, next_exp)
              /\ exp_cell' = AssignedCell(1, i, next_exp)
              /\ pc' = "next_base"
              /\ UNCHANGED outcome
         ELSE /\ Fail
              /\ UNCHANGED <<advice, cells, exp_cell>>
    /\ UNCHANGED <<gate_in, gate_out, exposed, instance, selector, copies, result_cell, base_cell, i,
                   next_result, next_exp, next_base_cell, returned>>

\* base_cell = region.assign_advice(.., advice[2], i, || Ok(next_base_cell))?
\* i += 1
NextBase ==
    /\ pc = "next_base"
    /\ IF Usable(i)
         THEN /\ AssignAdvice(2, i, next_base_cell)
              /\ base_cell' = AssignedCell(2, i, next_base_cell)
              /\ i' = NextIndex(i)
              /\ pc' = "loop"
              /\ UNCHANGED outcome
         ELSE /\ Fail
              /\ UNCHANGED <<advice, cells, base_cell, i>>
    /\ UNCHANGED <<gate_in, gate_out, exposed, instance, selector, copies, result_cell, exp_cell,
                   next_result, next_exp, next_base_cell, returned>>

\* Ok(result_cell): assign returns to synthesize
AssignReturn ==
    /\ pc = "return"
    /\ returned' = result_cell
    /\ pc' = "expose_public"
    /\ UNCHANGED <<gate_in, gate_out, exposed, instance, advice, cells, selector, copies, result_cell,
                   exp_cell, base_cell, i, next_result, next_exp,
                   next_base_cell, outcome>>

\* ------------------------------------------------------------------------
\* ExpChip::expose_public, called by ExpCircuit::synthesize with row 2:
\* layouter.constrain_instance(cell.cell(), instance, instance_column_row)
ExposePublic ==
    /\ pc = "expose_public"
    /\ exposed' = Append(exposed, <<returned, PublicRow>>)
    /\ IF Usable(PublicRow) /\ Usable(returned.row)
         THEN /\ copies' = copies \cup {<<returned.column, returned.row, PublicRow>>}
              /\ pc' = "verify"
              /\ UNCHANGED outcome
         ELSE /\ Fail
              /\ UNCHANGED copies
    /\ UNCHANGED <<gate_in, gate_out, instance, advice, cells, selector, result_cell, exp_cell,
                   base_cell, i, next_result, next_exp, next_base_cell,
                   returned>>

\* ------------------------------------------------------------------------
\* tests::test_exp_circuit: prover.assert_satisfied() on the built trace
Verify ==
    /\ pc = "verify"
    /\ outcome' = IF Satisfied(advice, cells, selector, copies, instance)
                    THEN "accepted" ELSE "rejected"
    /\ pc' = "done"
    /\ UNCHANGED <<gate_in, gate_out, exposed, instance, advice, cells, selector, copies, result_cell,
                   exp_cell, base_cell, i, next_result, next_exp,
                   next_base_cell, returned>>

Next ==
    \/ EnableFirst
    \/ ResultStart
    \/ ExpStart
    \/ BaseStart
    \/ LoopHead
    \/ NextResult
    \/ NextExp
    \/ NextBase
    \/ AssignReturn
    \/ ExposePublic
    \/ Verify

Spec == Init /\ [][Next]_vars

\* ------------------------------------------------------------------------
\* Names used by the properties
base == instance[0]
exponent == instance[1]
result == instance[2]

\* advice cells the region has assigned, and the rows they occupy
Occupied == CellSet(cells)
OccupiedRows == {c[2] : c \in Occupied}
\* the exponent fits in the trace
Fits == exponent \in 1..N
Done == pc = "done"
TypeOK ==
    /\ instance \in [0..2 -> Field]
    /\ advice \in [Cols -> [Rows -> Field]]
    /\ selector \subseteq Rows
    /\ i \in 0..(N + 1)
    /\ outcome \in {"none", "error", "accepted", "rejected"}
\* rows the assigner needs for an exponent: e rows for e >= 1; from 0 the
\* exponent column wraps through the whole field before it reaches 1
RowsNeeded(e) == IF e = 0 THEN P ELSE e
LastOccupiedRow == CHOOSE r \in OccupiedRows : \A q \in OccupiedRows : q <= r
AssignReturned == pc \in {"expose_public", "verify"} \/ (Done /\ outcome # "error")
RowAssigned(r) == \A c \in Cols : <<c, r>> \in Occupied
\* the recurrence of the gate between row r and row r + 1
StepHolds(r) ==
    /\ advice[0][r + 1] = FMul(advice[0][r], advice[2][r])
    /\ advice[1][r + 1] = FSub(advice[1][r], One)
    /\ advice[2][r + 1] = advice[2][r]
Mutated(adv, c, r, v) == [adv EXCEPT ![c][r] = v]

\* ------------------------------------------------------------------------
\* C1: for every exponent >= 1 that fits in the trace and result =
\* base^exponent, the finished run satisfies the gate at every
\* selector-enabled row and the check accepts.
C1_CorrectPowerAccepted ==
    (Done /\ Fits /\ result = Pow(base, exponent)) =>
        /\ \A r \in selector : GateAt(advice, selector, r) = <<Zero, Zero, Zero>>
        /\ outcome = "accepted"

\* C2: for every base and exponent 2 <= e <= N with result = base^e the run
\* is accepted: every selector-enabled row has its next row assigned and
\* satisfying the recurrence, and every copy constraint holds.
C2_GeneralCaseAccepted ==
    (Done /\ exponent \in 2..N /\ result = Pow(base, exponent)) =>
        /\ outcome = "accepted"
        /\ \A r \in selector : RowAssigned(r) /\ RowAssigned(r + 1) /\ StepHolds(r)
        /\ PermutationFailures(advice, copies, instance) = {}
C2_Witness ==
    /\ Done /\ outcome = "accepted"
    /\ exponent = N /\ base > 1 /\ selector = 0..(N - 2)

\* C3: for 1 <= e <= N the cell assign returns is the Result cell of the
\* last occupied row and its value is base^e.
C3_ReturnedCellIsPower ==
    (AssignReturned /\ Fits) =>
        /\ returned.column = 0
        /\ returned.row = LastOccupiedRow
        /\ returned.row = exponent - 1
        /\ returned.value = advice[0][returned.row]
        /\ returned.value = Pow(base, exponent)
C3_Witness ==
    /\ pc = "expose_public" /\ exponent = N /\ base > 1
    /\ returned.row = N - 1 /\ returned.value = Pow(base, N)

\* C4: for 1 <= e <= N and a claimed result r # base^e the check rejects:
\* the copy constraint between the final occupied Result cell and
\* public_input[2] does not hold.
C4_WrongResultRejected ==
    (Done /\ Fits /\ result # Pow(base, exponent)) =>
        /\ outcome = "rejected"
        /\ <<0, LastOccupiedRow, 2>> \in PermutationFailures(advice, copies, instance)
C4_Witness ==
    /\ Done /\ outcome = "rejected"
    /\ exponent = N /\ result # Pow(base, exponent)
    /\ PermutationFailures(advice, copies, instance) = {<<0, N - 1, 2>>}
    /\ GateFailures(advice, selector) = {}

\* C5: after assign completes for 1 <= e <= N the selector is 1 on every
\* transition row, 0 on the final occupied row and on the unused rows, and
\* the number of selector-enabled rows is e - 1.
C5_SelectorRows ==
    (AssignReturned /\ Fits) =>
        /\ selector = 0..(exponent - 2)
        /\ LastOccupiedRow \notin selector
        /\ Cardinality(selector) = exponent - 1

\* C6: for exponent = 1 there is no selector-enabled row, only row 0 is
\* occupied with Result[0] = Base[0] = base, and the check accepts iff the
\* claimed result equals base.
C6_ExponentOne ==
    (Done /\ exponent = 1) =>
        /\ selector = {}
        /\ OccupiedRows = {0}
        /\ advice[0][0] = base /\ advice[2][0] = base
        /\ (outcome = "accepted") <=> (result = base)

\* C7 (as stated): when the exponent needs more than N rows the run fails
\* before any selector is enabled and before any cell is assigned.
C7_ErrorBeforeAssignment ==
    (outcome = "error" /\ RowsNeeded(exponent) > N) =>
        /\ selector = {}
        /\ cells = << >>
\* C7 (amended): when the exponent needs more than N rows the run fails
\* with the capacity error during assignment: at that moment exactly the
\* rows 0..N-1 are assigned and selector-enabled, and nothing at a row >= N.
C7_ErrorDuringAssignment ==
    (Done /\ RowsNeeded(exponent) > N) =>
        /\ outcome = "error"
        /\ Occupied = Cols \X (0..(N - 1))
        /\ selector = 0..(N - 1)
C7_Witness ==
    /\ outcome = "error" /\ exponent = N + 1
    /\ i = N /\ exp_cell.value = Two /\ pc = "done"

\* C8: when the exponent needs more rows than N the trace is never
\* truncated silently: nothing is enabled or assigned at a row >= N, assign
\* returns no cell, expose_public is not called, and the run ends with the
\* error and is never accepted.
C8_NoSilentTruncation ==
    (RowsNeeded(exponent) > N) =>
        /\ \A c \in Occupied : c[2] < N
        /\ \A r \in selector : r < N
        /\ returned = NoCell
        /\ pc \notin {"return", "expose_public", "verify"}
        /\ \A cp \in copies : cp[2] = 0 /\ cp[3] # 2
        /\ outcome \notin {"accepted", "rejected"}
        /\ Done => outcome = "error"
C8_Witness ==
    /\ Done /\ outcome = "error" /\ RowsNeeded(exponent) > N
    /\ i = N /\ exp_cell.value # Two /\ selector = 0..(N - 1)

\* C9: for a trace built from [base, e, base^e] with 1 <= e <= N, changing
\* any single occupied cell to a different field element makes the check
\* reject, by a gate violation or a copy-constraint violation.
C9_SingleCellMutationRejected ==
    (Done /\ Fits /\ result = Pow(base, exponent)) =>
        \A cell \in Occupied : \A v \in Field \ {advice[cell[1]][cell[2]]} :
            LET adv == Mutated(advice, cell[1], cell[2], v) IN
              /\ ~Satisfied(adv, cells, selector, copies, instance)
              /\ \/ GateFailures(adv, selector) # {}
                 \/ PermutationFailures(adv, copies, instance) # {}
C9_Witness ==
    /\ Done /\ outcome = "accepted" /\ exponent = N
    /\ result = Pow(base, exponent)
    /\ Occupied = Cols \X (0..(N - 1))

\* C10: in every accepted run Result[0] = Base[0] = public_input[0],
\* Exponent[0] = public_input[1] and the final occupied Result cell =
\* public_input[2]; the row-0 cells are copies of the instance cells, each
\* assigned once and copy-constrained to its instance row.
C10_PublicInputsBound ==
    (outcome = "accepted") =>
        /\ advice[0][0] = instance[0] /\ advice[2][0] = instance[0]
        /\ advice[1][0] = instance[1]
        /\ advice[0][LastOccupiedRow] = instance[2]
        /\ {<<0, 0, 0>>, <<1, 0, 1>>, <<2, 0, 0>>} \subseteq copies
        /\ <<0, LastOccupiedRow, 2>> \in copies
        /\ \A c \in Cols : Cardinality({k \in DOMAIN cells : cells[k] = <<c, 0>>}) = 1
C10_Witness ==
    /\ outcome = "accepted"
    /\ base # exponent /\ base # result /\ exponent # result
    /\ Cardinality(copies) = 4

\* ------------------------------------------------------------------------
\* The gate "exp" on its own: the three constraints evaluated on an
\* arbitrary selector value and arbitrary values of the two rows
GateInit ==
    /\ instance = [k \in 0..2 |-> 0]
    /\ advice = [c \in Cols |-> [r \in Rows |-> 0]]
    /\ cells = << >>
    /\ selector = {}
    /\ copies = {}
    /\ result_cell = NoCell
    /\ exp_cell = NoCell
    /\ base_cell = NoCell
    /\ i = 0
    /\ next_result = 0
    /\ next_exp = 0
    /\ next_base_cell = 0
    /\ returned = NoCell
    /\ pc = "gate"
    /\ outcome = "none"
    /\ exposed = << >>
    /\ gate_in = <<0, 0, 0, 0, 0, 0, 0>>
    /\ gate_out = <<Zero, Zero, Zero>>

GateEval ==
    /\ pc = "gate"
    /\ \E s \in {0, 1} : \E r, rn, e, en, b, bn \in Field :
         /\ gate_in' = <<s, r, rn, e, en, b, bn>>
         /\ gate_out' = GateExp(s, r, rn, e, en, b, bn)
    /\ pc' = "gate_done"
    /\ UNCHANGED <<instance, advice, cells, selector, copies, result_cell,
                   exp_cell, base_cell, i, next_result, next_exp,
                   next_base_cell, returned, outcome, exposed>>

GateNext == GateEval

GateSpec == GateInit /\ [][GateNext]_vars

\* C11: for a selector value s in {0,1} and any field values of the two
\* rows, the three constraints of the gate are all zero iff s = 0 or the
\* next row is the recurrence step of the row (Result_next = Result*Base,
\* Exponent_next = Exponent - 1, Base_next = Base); with s = 0 the gate
\* constrains nothing.
C11_GateIffRecurrence ==
    LET s == gate_in[1]
        r == gate_in[2]
        rn == gate_in[3]
        e == gate_in[4]
        en == gate_in[5]
        b == gate_in[6]
        bn == gate_in[7]
    IN /\ (gate_out = <<0, 0, 0>>) <=>
            (s = 0 \/ (rn = (r * b) % P /\ (en + 1) % P = e /\ bn = b))
       /\ (s = 0) => (gate_out = <<0, 0, 0>>)
C11_Witness ==
    /\ pc = "gate_done"
    /\ gate_in = <<1, 2, 6, 0, P - 1, 3, 3>>
    /\ gate_out = <<0, 0, 0>>
\* C12: for 1 <= e <= N assign occupies exactly rows 0..e-1, with Base[r] =
\* base and Exponent[r] = e - r on every occupied row r; the last occupied
\* row is the first row whose Exponent is 1 and nothing is assigned after it.
C12_OccupiedRows ==
    (AssignReturned /\ Fits) =>
        /\ Occupied = Cols \X (0..(exponent - 1))
        /\ Len(cells) = 3 * exponent
        /\ \A r \in 0..(exponent - 1) :
              advice[2][r] = base /\ advice[1][r] = exponent - r
        /\ advice[1][LastOccupiedRow] = 1
        /\ \A r \in OccupiedRows : advice[1][r] = 1 => r = LastOccupiedRow
        /\ \A c \in Cols : \A r \in Rows : r >= exponent => advice[c][r] = 0
C12_Witness ==
    /\ Done /\ exponent = N /\ base > 1
    /\ Len(cells) = 3 * N /\ advice[1][N - 1] = 1 /\ advice[1][0] = N

\* C13 (as stated): for 2 <= e <= N the row whose Exponent value is 2 has
\* selector 0, and a row is selector-enabled iff its Exponent value is
\* neither 1 nor 2.
C13_PreTerminalRowInactive ==
    (AssignReturned /\ exponent \in 2..N) =>
        \A r \in OccupiedRows :
            /\ advice[1][r] = 2 => r \notin selector
            /\ (r \in selector) <=> (advice[1][r] \notin {1, 2})
\* C13 (amended): for 2 <= e <= N the row the assigner leaves without the
\* selector is the terminal row, whose Exponent value is 1; the row whose
\* Exponent value is 2 has selector 1, so an occupied row is
\* selector-enabled iff its Exponent value is not 1.
C13_TerminalRowInactive ==
    (AssignReturned /\ exponent \in 2..N) =>
        /\ selector \subseteq OccupiedRows
        /\ \A r \in OccupiedRows :
            /\ advice[1][r] = 1 => (r \notin selector /\ r = LastOccupiedRow)
            /\ advice[1][r] = 2 => r \in selector
            /\ (r \in selector) <=> (advice[1][r] # 1)
C13_Witness ==
    /\ pc = "verify" /\ exponent = N
    /\ advice[1][N - 2] = 2 /\ (N - 2) \in selector
    /\ advice[1][N - 1] = 1 /\ (N - 1) \notin selector

\* C14: in every run of assign, failing or not, no cell is overwritten:
\* the cells are assigned once each, row 0 first from the instance column,
\* then rows 1, 2, ... in increasing order (result, exponent, base), each
\* cell of a row computed from the assigned cells of the previous row.
C14_NoOverwrite ==
    /\ \A k \in DOMAIN cells : cells[k] = <<(k - 1) % 3, (k - 1) \div 3>>
    /\ \A j, k \in DOMAIN cells : j # k => cells[j] # cells[k]
    /\ \A c \in Cols : \A r \in Rows : <<c, r>> \notin Occupied => advice[c][r] = 0
    /\ \A c \in Cols : <<c, 0>> \in Occupied =>
          LET src == IF c = 1 THEN 1 ELSE 0 IN
            advice[c][0] = instance[src] /\ <<c, 0, src>> \in copies
    /\ \A cell \in Occupied : cell[2] >= 1 =>
          LET r == cell[2] - 1 IN
            /\ RowAssigned(r)
            /\ cell[1] = 0 => advice[0][r + 1] = FMul(advice[0][r], advice[2][r])
            /\ cell[1] = 1 => advice[1][r + 1] = FSub(advice[1][r], One)
            /\ cell[1] = 2 => advice[2][r + 1] = advice[2][r]
C14_Witness ==
    /\ Done /\ outcome = "error" /\ exponent > N
    /\ Len(cells) = 3 * N /\ cells[Len(cells)] = <<2, N - 1>>

\* C15: synthesize runs assign and then expose_public, in that order:
\* expose_public is called once, only after assign returned a cell, on
\* that cell and with instance row 2; when assign fails synthesize ends
\* with the failure and no binding to instance row 2 exists.
C15_AssignThenExpose ==
    /\ Len(exposed) <= 1
    /\ returned = NoCell => exposed = << >>
    /\ returned # NoCell => (returned = result_cell /\ pc \in {"expose_public", "verify", "done"})
    /\ pc = "expose_public" => exposed = << >>
    /\ (pc = "verify" \/ (Done /\ outcome # "error")) => Len(exposed) = 1
    /\ exposed # << >> =>
          /\ exposed[1] = <<returned, 2>>
          /\ <<returned.column, returned.row, 2>> \in copies
    /\ exposed = << >> => \A cp \in copies : cp[3] # 2
    /\ outcome = "error" => (returned = NoCell /\ exposed = << >>)
C15_Witness ==
    /\ Done /\ outcome = "accepted" /\ exponent = N
    /\ exposed = << <<returned, 2>> >> /\ returned.row = N - 1

\* C16: with field order p > N + 1 and exponent 0, assign never reaches a
\* terminal row: the exponent column runs 0, p-1, p-2, ... without meeting
\* 1 or 2, the selector is enabled on every row reached, and the run ends
\* with the out-of-rows error; no cell is returned and the run is never
\* accepted, whatever the claimed result.
C16_ExponentZeroRunsOut ==
    (exponent = 0 /\ P > N + 1) =>
        /\ \A r \in Rows : <<1, r>> \in Occupied =>
              (advice[1][r] = (P - r) % P /\ advice[1][r] \notin {1, 2})
        /\ \A r \in Rows : <<0, r>> \in Occupied => r \in selector
        /\ returned = NoCell
        /\ pc \notin {"return", "expose_public", "verify"}
        /\ outcome \notin {"accepted", "rejected"}
        /\ Done => /\ outcome = "error"
                   /\ i = N
                   /\ selector = 0..(N - 1)
                   /\ Occupied = Cols \X (0..(N - 1))
C16_Witness ==
    /\ Done /\ outcome = "error" /\ exponent = 0 /\ result = 1
    /\ advice[1][1] = P - 1 /\ advice[1][N - 1] = (P - N) + 1

====
